---- MODULE Spec2Model ----
(***************************************************************************)
(* Model of vimeo-dl/vimeo_dl.py: rendition selection (_best), the         *)
(* resumable segment downloader (_download_resumable) and the run of       *)
(* main() around them, over a disk that outlives one process run; and of   *)
(* youtube-downloader/yt-dl.py: download_url in the loop of its main().    *)
(*                                                                         *)
(* Python indices are kept 0-based as in the source (start_index, i);      *)
(* the TLA+ sequence element of Python's segments[i] is segments[i + 1].   *)
(***************************************************************************)
EXTENDS Integers, Sequences, FiniteSets, TLC

(* ------------------------------ bounds -------------------------------- *)
\* yt-dl: urls in the list file, files in the output directory at the start
MaxUrls == 2
MaxFiles == 1
\* longest segment list of a rendition
MaxSegs == 3
\* largest declared segment size, in bytes
MaxSize == 2
\* largest decoded init block, in bytes
MaxInit == 1
\* longest foreign file found at the output path before the first run
MaxScrap == 1
\* number of re-runs of the program on the same disk
MaxRuns == 1
\* longest rendition list of a manifest handed to _best
MaxStreams == 2
\* largest value of a height / bitrate / avg_bitrate field
MaxVal == 2

(* ------------------------------ helpers ------------------------------- *)
\* dict.get(field, default)
Get(d, field, default) == IF field \in DOMAIN d THEN d[field] ELSE default

\* all sequences over S of length lo..hi
SeqsOf(S, lo, hi) == UNION {[1..n -> S] : n \in lo..hi}

\* s[1..n]
Prefix(s, n) == SubSeq(s, 1, n)

\* exit codes of the process; NotExited while it runs
NotExited == -1

\* the paths the program touches
OutputPath == "output"
VideoTmp == "tmp_video.mp4"
AudioTmp == "tmp_audio.m4a"

(* --------------------------- content of a track ----------------------- *)
\* A byte is <<rendition id, block, offset>>: block 0 is the init block,
\* block u the body served for the segment whose url is u.
InitData(r) == [k \in 1..r.init_segment |-> <<r.id, 0, k>>]

\* resp.content of a successful GET of seg: the manifest's size is the exact
\* number of bytes the segment contributes
Content(r, seg) == [k \in 1..seg.size |-> <<r.id, seg.url, k>>]

\* foreign bytes (a file some other program left at the path)
Scrap(n) == [k \in 1..n |-> <<0, 0, k>>]

(* --------------------------- resume logic ----------------------------- *)
\* mutant of Exceeds: the boundary segment is taken as unfinished
ExceedsOrEqual(cumulative_bytes, downloaded_media_bytes) ==
    cumulative_bytes >= downloaded_media_bytes

\* the comparison of the resume walk
Exceeds(cumulative_bytes, downloaded_media_bytes) ==
    cumulative_bytes > downloaded_media_bytes

\* result of the walk when the for loop runs to its else branch
Complete == -1

\* mutant of Walk: the sum is compared before the size of segment i is added
RECURSIVE WalkCompareFirst(_, _, _, _)
WalkCompareFirst(segments, i, cumulative_bytes, downloaded_media_bytes) ==
    IF i = Len(segments)
    THEN Complete
    ELSE IF Exceeds(cumulative_bytes, downloaded_media_bytes)
         THEN i
         ELSE WalkCompareFirst(segments, i + 1,
                               cumulative_bytes + segments[i + 1].size,
                               downloaded_media_bytes)

\* the for/else walk over the segments, from index i with the running sum
RECURSIVE Walk(_, _, _, _)
Walk(segments, i, cumulative_bytes, downloaded_media_bytes) ==
    IF i = Len(segments)
    THEN Complete
    ELSE LET c == cumulative_bytes + segments[i + 1].size
         IN  IF Exceeds(c, downloaded_media_bytes)
             THEN i
             ELSE Walk(segments, i + 1, c, downloaded_media_bytes)

\* mutant of ResumeMode: a file of exactly the init size is resumed
ResumeModeGE(exists, current_size, init_size) ==
    IF exists /\ current_size >= init_size THEN "ab" ELSE "wb"

\* the mode chosen by the resume logic
ResumeMode(exists, current_size, init_size) ==
    IF exists /\ current_size > init_size THEN "ab" ELSE "wb"

\* mutant of LocateResume: the init block is not subtracted from the file size
LocateResumeFileSize(exists, current_size, init_size, segments) ==
    IF ResumeMode(exists, current_size, init_size) = "ab"
    THEN LET w == Walk(segments, 0, 0, current_size)
         IN  IF w = Complete
             THEN [mode |-> "ab", start_index |-> 0, skip |-> TRUE]
             ELSE [mode |-> "ab", start_index |-> w, skip |-> FALSE]
    ELSE [mode |-> "wb", start_index |-> 0, skip |-> FALSE]

\* mutant of LocateResume: the else branch of the walk does not return
LocateResumeNoReturn(exists, current_size, init_size, segments) ==
    IF ResumeMode(exists, current_size, init_size) = "ab"
    THEN LET w == Walk(segments, 0, 0, current_size - init_size)
         IN  [mode |-> "ab", start_index |-> IF w = Complete THEN 0 ELSE w,
              skip |-> FALSE]
    ELSE [mode |-> "wb", start_index |-> 0, skip |-> FALSE]
\* mutant of LocateResume: a file found complete is downloaded again from 0
LocateResumeRestartsComplete(exists, current_size, init_size, segments) ==
    IF ResumeMode(exists, current_size, init_size) = "ab"
    THEN LET w == Walk(segments, 0, 0, current_size - init_size)
         IN  IF w = Complete
             THEN [mode |-> "wb", start_index |-> 0, skip |-> FALSE]
             ELSE [mode |-> "ab", start_index |-> w, skip |-> FALSE]
    ELSE [mode |-> "wb", start_index |-> 0, skip |-> FALSE]

\* start_index, mode and the early return, from the file found at out_file
LocateResume(exists, current_size, init_size, segments) ==
    IF ResumeMode(exists, current_size, init_size) = "ab"
    THEN LET w == Walk(segments, 0, 0, current_size - init_size)
         IN  IF w = Complete
             THEN [mode |-> "ab", start_index |-> 0, skip |-> TRUE]
             ELSE [mode |-> "ab", start_index |-> w, skip |-> FALSE]
    ELSE [mode |-> "wb", start_index |-> 0, skip |-> FALSE]
\* mutant of Open: every open truncates, as if the mode were always "wb"
OpenTruncates(fs, path, m) == <<>>

\* the content of the file right after open(out_file, mode)
Open(fs, path, m) ==
    IF m = "ab" /\ path \in DOMAIN fs THEN fs[path] ELSE <<>>

\* mutant of WritesInit: the init block is written after every open
WritesInitEveryOpen(si, m) == TRUE

\* whether the init block is written after the open
WritesInit(si, m) == si = 0 /\ m = "wb"

(* --------------------------- selection -------------------------------- *)
\* lexicographic a > b on tuples of equal length (Python tuple comparison)
RECURSIVE TupleGT(_, _)
TupleGT(a, b) ==
    IF a = <<>> THEN FALSE
    ELSE IF Head(a) # Head(b) THEN Head(a) > Head(b)
    ELSE TupleGT(Tail(a), Tail(b))

\* mutant of Key: bitrate leads the video key
KeyBitrateFirst(v, video) ==
    IF video
    THEN <<Get(v, "bitrate", 0), Get(v, "height", 0), Get(v, "width", 0)>>
    ELSE <<Get(v, "bitrate", 0)>>

\* the key lambda of _best
Key(v, video) ==
    IF video
    THEN <<Get(v, "height", 0), Get(v, "width", 0), Get(v, "bitrate", 0)>>
    ELSE <<Get(v, "bitrate", 0)>>

\* mutant of Better: a later equal element replaces the current maximum
BetterOrEqual(x, best, video) == ~TupleGT(Key(best, video), Key(x, video))

\* max() replaces its current maximum only by a strictly greater element
Better(x, best, video) == TupleGT(Key(x, video), Key(best, video))

\* max(streams, key=key) from position n on with the maximum so far
RECURSIVE MaxFrom(_, _, _, _)
MaxFrom(streams, n, best, video) ==
    IF n > Len(streams) THEN best
    ELSE MaxFrom(streams, n + 1,
                 IF Better(streams[n], best, video) THEN streams[n] ELSE best,
                 video)

\* _best(streams, video=...); streams is non-empty (max() raises otherwise)
Best(streams, video) == MaxFrom(streams, 2, streams[1], video)

(* ------------------------------ state --------------------------------- *)
VARIABLES
    data,          \* the parsed manifest: a dict with optional keys video, audio
    audio_only,    \* args.audio_only
    files,         \* the disk: path -> content, for the paths that exist
    pc,            \* position of main()
    fpc,           \* position of the last _download_resumable call: "call" at its
                   \* entry, "loop" at a GET, "skipped" after the early return,
                   \* "returned" after the loop, "aborted" after sys.exit
    rep,           \* its rep argument
    out_file,      \* its out_file argument
    video_rep,     \* main's video_rep
    audio_rep,     \* main's audio_rep
    tmp_files,     \* main's tmp_files
    current_size,  \* os.path.getsize(out_file), NoSize when it does not exist
    start_index,
    mode,
    i,             \* loop variable of the download loop
    requests,      \* the segment GETs this run issued, in order
    exit_code,     \* exit status of the process, NotExited while it runs
    err,           \* what the run printed to stderr when it failed
    runs,          \* the earlier runs on this disk, oldest first
    mux_calls,     \* the argument lists _mux was called with in this run
    urls,          \* yt-dl: the urls main has not handed to download_url yet
    url,           \* yt-dl: the url argument of download_url
    outdir,        \* yt-dl: the names of the files in the output directory
    audio,         \* yt-dl: args.audio
    out,           \* yt-dl: args.out
    ypc,           \* yt-dl: where download_url stands
    ran            \* yt-dl: the subprocess.run calls made for url, in order

\* the state of yt-dl.py
ytvars == <<urls, url, outdir, audio, out, ypc, ran>>

vars == <<data, audio_only, files, pc, fpc, rep, out_file, video_rep, audio_rep,
          tmp_files, current_size, start_index, mode, i, requests, exit_code,
          err, runs, mux_calls, ytvars>>

\* value of current_size when out_file does not exist (the name is unbound)
NoSize == -1

\* a local that is not bound yet
NoRep == [id |-> 0, init_segment |-> 0, segments |-> <<>>]

NoErr == [kind |-> "none", segment |-> 0]

(* ------------------------------ manifests ----------------------------- *)
\* a segment list with the given sizes; the url names the segment
Segments(sizes) == [k \in 1..Len(sizes) |-> [url |-> k, size |-> sizes[k]]]

\* the audio renditions whose download is explored in full
FetchReps ==
    {[id |-> 1, bitrate |-> 1, init_segment |-> n, segments |-> Segments(sz)] :
        n \in 0..MaxInit, sz \in SeqsOf(0..MaxSize, 0, MaxSegs)}

\* a video rendition beside them (audio-only runs never fetch it)
PlainVideo == [id |-> 2, height |-> 1, width |-> 1, bitrate |-> 1,
               init_segment |-> 1, segments |-> Segments(<<1>>)]

\* the disks a first run can find: nothing at the output path, or a foreign file
FirstDisks ==
    {<<>>} \cup {[p \in {OutputPath} |-> Scrap(n)] : n \in 1..MaxScrap}

(* ------------------------------ Init ---------------------------------- *)
\* locals of a process that has just started
Fresh ==
    /\ pc = "start"
    /\ fpc = "idle"
    /\ rep = NoRep
    /\ out_file = ""
    /\ video_rep = NoRep
    /\ audio_rep = NoRep
    /\ tmp_files = <<>>
    /\ current_size = NoSize
    /\ start_index = 0
    /\ mode = "wb"
    /\ i = 0
    /\ requests = <<>>
    /\ exit_code = NotExited
    /\ err = NoErr
    /\ mux_calls = <<>>

\* yt-dl.py is not running
YtIdle ==
    /\ urls = <<>>
    /\ url = <<>>
    /\ outdir = {}
    /\ audio = FALSE
    /\ out = "."
    /\ ypc = "idle"
    /\ ran = <<>>

\* audio-only runs of one rendition, over every segment list within the bounds
Init ==
    /\ \E r \in FetchReps : data = [video |-> <<PlainVideo>>, audio |-> <<r>>]
    /\ audio_only = TRUE
    /\ files \in FirstDisks
    /\ runs = <<>>
    /\ Fresh
    /\ YtIdle

(* ------------------------ _download_resumable ------------------------- *)
\* fs with path holding content
Store(fs, path, content) ==
    [p \in DOMAIN fs \cup {path} |-> IF p = path THEN content ELSE fs[p]]

\* the resume logic and the open of the download loop, up to the first GET
Resume ==
    /\ fpc = "call"
    /\ LET exists == out_file \in DOMAIN files
           cs == IF exists THEN Len(files[out_file]) ELSE NoSize
           r == LocateResume(exists, cs, rep.init_segment, rep.segments)
       IN  /\ current_size' = cs
           /\ start_index' = r.start_index
           /\ mode' = r.mode
           /\ i' = r.start_index
           /\ IF r.skip
              THEN /\ fpc' = "skipped"
                   /\ files' = files
              ELSE /\ fpc' = IF r.start_index = Len(rep.segments)
                             THEN "returned" ELSE "loop"
                   /\ files' = Store(files, out_file,
                                     Open(files, out_file, r.mode)
                                     \o (IF WritesInit(r.start_index, r.mode)
                                         THEN InitData(rep) ELSE <<>>))
    /\ UNCHANGED <<data, audio_only, pc, rep, out_file, video_rep, audio_rep,
                   tmp_files, requests, exit_code, err, runs, mux_calls,
                   ytvars>>

\* one iteration of the download loop whose GET and write succeed;
\* i is the index of the segment in flight (Len(segments) once the loop is over)
SegmentOk ==
    /\ fpc = "loop"
    /\ LET seg == rep.segments[i + 1]
       IN  /\ requests' = Append(requests, <<rep.id, seg.url>>)
           /\ files' = Store(files, out_file, files[out_file] \o Content(rep, seg))
    /\ i' = i + 1
    /\ fpc' = IF i + 1 = Len(rep.segments) THEN "returned" ELSE "loop"
    /\ UNCHANGED <<data, audio_only, pc, rep, out_file, video_rep, audio_rep,
                   tmp_files, current_size, start_index, mode, exit_code, err,
                   runs, mux_calls, ytvars>>
\* SegmentFail with the failure swallowed: the function returns as if done
SegmentFailReturns ==
    /\ fpc = "loop"
    /\ requests' = Append(requests, <<rep.id, rep.segments[i + 1].url>>)
    /\ err' = [kind |-> "segment", segment |-> i + 1]
    /\ fpc' = "returned"
    /\ UNCHANGED <<data, audio_only, files, pc, rep, out_file, video_rep,
                   audio_rep, tmp_files, current_size, start_index, mode, i,
                   exit_code, runs, mux_calls, ytvars>>
\* SegmentFail with the first byte of the failed segment written to the file
SegmentFailPartial ==
    /\ fpc = "loop"
    /\ LET seg == rep.segments[i + 1]
       IN  /\ requests' = Append(requests, <<rep.id, seg.url>>)
           /\ files' = Store(files, out_file,
                             files[out_file]
                             \o Prefix(Content(rep, seg),
                                       IF seg.size = 0 THEN 0 ELSE 1))
    /\ exit_code' = 1
    /\ err' = [kind |-> "segment", segment |-> i + 1]
    /\ pc' = "exit"
    /\ fpc' = "aborted"
    /\ UNCHANGED <<data, audio_only, rep, out_file, video_rep, audio_rep,
                   tmp_files, current_size, start_index, mode, i, runs,
                   mux_calls, ytvars>>
\* SegmentFail with a retry: the loop asks for the same segment again
SegmentFailRetry ==
    /\ fpc = "loop"
    /\ Len(requests) < MaxSegs + 1
    /\ requests' = Append(requests, <<rep.id, rep.segments[i + 1].url>>)
    /\ UNCHANGED <<data, audio_only, files, pc, fpc, rep, out_file, video_rep,
                   audio_rep, tmp_files, current_size, start_index, mode, i,
                   exit_code, err, runs, mux_calls, ytvars>>

\* one iteration whose GET raises: the except branch ends the process
SegmentFail ==
    /\ fpc = "loop"
    /\ requests' = Append(requests, <<rep.id, rep.segments[i + 1].url>>)
    /\ exit_code' = 1
    /\ err' = [kind |-> "segment", segment |-> i + 1]
    /\ pc' = "exit"
    /\ fpc' = "aborted"
    /\ UNCHANGED <<data, audio_only, files, rep, out_file, video_rep, audio_rep,
                   tmp_files, current_size, start_index, mode, i, runs,
                   mux_calls, ytvars>>

\* KeyboardInterrupt while segment i is in flight: it is no Exception, so it
\* leaves the loop wherever it is raised, with n bytes of the segment written
Interrupt ==
    /\ fpc = "loop"
    /\ LET seg == rep.segments[i + 1]
       IN  /\ requests' = Append(requests, <<rep.id, seg.url>>)
           /\ \E n \in 0..(IF seg.size = 0 THEN 0 ELSE seg.size - 1) :
                files' = Store(files, out_file,
                               files[out_file] \o Prefix(Content(rep, seg), n))
    /\ exit_code' = 130
    /\ err' = [kind |-> "cancelled", segment |-> 0]
    /\ pc' = "exit"
    /\ fpc' = "aborted"
    /\ UNCHANGED <<data, audio_only, rep, out_file, video_rep, audio_rep,
                   tmp_files, current_size, start_index, mode, i, runs,
                   mux_calls, ytvars>>

(* ------------------------------ main ---------------------------------- *)
\* the structure test of main
Recognised(d) == "video" \in DOMAIN d /\ "audio" \in DOMAIN d

\* audio-only branch up to the call of _download_resumable
StartAudioOnly ==
    /\ pc = "start"
    /\ Recognised(data)
    /\ audio_only
    /\ data.audio # <<>>
    /\ audio_rep' = Best(data.audio, FALSE)
    /\ rep' = audio_rep'
    /\ out_file' = OutputPath
    /\ pc' = "audio_only"
    /\ fpc' = "call"
    /\ UNCHANGED <<data, audio_only, files, video_rep, tmp_files, current_size,
                   start_index, mode, i, requests, exit_code, err, runs,
                   mux_calls, ytvars>>

\* the audio-only download returned: the success message, nothing to clean up
AudioOnlyDone ==
    /\ pc = "audio_only"
    /\ fpc \in {"returned", "skipped"}
    /\ exit_code' = 0
    /\ pc' = "exit"
    /\ UNCHANGED <<data, audio_only, files, fpc, rep, out_file, video_rep,
                   audio_rep, tmp_files, current_size, start_index, mode, i,
                   requests, err, runs, mux_calls, ytvars>>

\* the else branch of the structure test: sys.exit with a message
Reject ==
    /\ pc = "start"
    /\ ~Recognised(data)
    /\ exit_code' = 1
    /\ err' = [kind |-> "unknown_manifest", segment |-> 0]
    /\ pc' = "exit"
    /\ UNCHANGED <<data, audio_only, files, fpc, rep, out_file, video_rep,
                   audio_rep, tmp_files, current_size, start_index, mode, i,
                   requests, runs, mux_calls, ytvars>>

\* max() of an empty list raises ValueError in a _best call of the mode
Raises(d, ao) ==
    IF ao THEN d.audio = <<>> ELSE d.video = <<>> \/ d.audio = <<>>

\* mutant of SelectFail: the audio rendition is selected after the video
\* download, so an empty audio list is met with the video track on disk
SelectFailAfterVideo ==
    /\ pc = "start"
    /\ Recognised(data)
    /\ Raises(data, audio_only)
    /\ tmp_files' = IF audio_only THEN <<>> ELSE <<VideoTmp, AudioTmp>>
    /\ files' = IF ~audio_only /\ data.video # <<>>
                THEN [p \in DOMAIN files \cup {VideoTmp} |->
                        IF p = VideoTmp THEN InitData(Best(data.video, TRUE))
                        ELSE files[p]]
                ELSE files
    /\ exit_code' = 1
    /\ err' = [kind |-> "exception", segment |-> 0]
    /\ pc' = "exit"
    /\ UNCHANGED <<data, audio_only, fpc, rep, out_file, video_rep, audio_rep,
                   current_size, start_index, mode, i, requests, runs,
                   mux_calls, ytvars>>

\* a _best call raises before any download; the handler of __main__ exits
SelectFail ==
    /\ pc = "start"
    /\ Recognised(data)
    /\ Raises(data, audio_only)
    /\ tmp_files' = IF audio_only THEN <<>> ELSE <<VideoTmp, AudioTmp>>
    /\ exit_code' = 1
    /\ err' = [kind |-> "exception", segment |-> 0]
    /\ pc' = "exit"
    /\ UNCHANGED <<data, audio_only, files, fpc, rep, out_file, video_rep,
                   audio_rep, current_size, start_index, mode, i, requests,
                   runs, mux_calls, ytvars>>

\* combined branch up to the call of _download_resumable for the video track
StartCombined ==
    /\ pc = "start"
    /\ Recognised(data)
    /\ ~audio_only
    /\ ~Raises(data, audio_only)
    /\ tmp_files' = <<VideoTmp, AudioTmp>>
    /\ video_rep' = Best(data.video, TRUE)
    /\ audio_rep' = Best(data.audio, FALSE)
    /\ rep' = video_rep'
    /\ out_file' = VideoTmp
    /\ pc' = "fetch_video"
    /\ fpc' = "call"
    /\ UNCHANGED <<data, audio_only, files, current_size, start_index, mode, i,
                   requests, exit_code, err, runs, mux_calls, ytvars>>

\* the video download returned: the call of _download_resumable for the audio
VideoDone ==
    /\ pc = "fetch_video"
    /\ fpc \in {"returned", "skipped"}
    /\ rep' = audio_rep
    /\ out_file' = AudioTmp
    /\ pc' = "fetch_audio"
    /\ fpc' = "call"
    /\ UNCHANGED <<data, audio_only, files, video_rep, audio_rep, tmp_files,
                   current_size, start_index, mode, i, requests, exit_code, err,
                   runs, mux_calls, ytvars>>

\* what ffmpeg writes from the two track files
Muxed(video_f, audio_f) == video_f \o audio_f

\* fs without the given paths
Remove(fs, paths) == [p \in DOMAIN fs \ paths |-> fs[p]]

\* the audio download returned, ffmpeg succeeds, the temporaries are removed
MuxOk ==
    /\ pc = "fetch_audio"
    /\ fpc \in {"returned", "skipped"}
    /\ files' = Remove(Store(files, OutputPath,
                             Muxed(files[VideoTmp], files[AudioTmp])),
                       {tmp_files[k] : k \in 1..Len(tmp_files)})
    /\ mux_calls' = Append(mux_calls, <<VideoTmp, AudioTmp, OutputPath>>)
    /\ exit_code' = 0
    /\ pc' = "exit"
    /\ UNCHANGED <<data, audio_only, fpc, rep, out_file, video_rep, audio_rep,
                   tmp_files, current_size, start_index, mode, i, requests, err,
                   runs, ytvars>>
\* MuxFail with the cleanup of main run on the way out (a try/finally)
MuxFailCleans ==
    /\ pc = "fetch_audio"
    /\ fpc \in {"returned", "skipped"}
    /\ files' = Remove(files, {tmp_files[k] : k \in 1..Len(tmp_files)})
    /\ mux_calls' = Append(mux_calls, <<VideoTmp, AudioTmp, OutputPath>>)
    /\ exit_code' = 1
    /\ err' = [kind |-> "exception", segment |-> 0]
    /\ pc' = "exit"
    /\ UNCHANGED <<data, audio_only, fpc, rep, out_file, video_rep, audio_rep,
                   tmp_files, current_size, start_index, mode, i, requests,
                   runs, ytvars>>

\* the audio download returned, ffmpeg fails: check_call raises and the handler
\* of __main__ exits; ffmpeg may have left any part of its output behind
MuxFail ==
    /\ pc = "fetch_audio"
    /\ fpc \in {"returned", "skipped"}
    /\ LET m == Muxed(files[VideoTmp], files[AudioTmp])
       IN  files' \in {files} \cup
                      {Store(files, OutputPath, Prefix(m, n)) : n \in 0..(Len(m) - 1)}
    /\ mux_calls' = Append(mux_calls, <<VideoTmp, AudioTmp, OutputPath>>)
    /\ exit_code' = 1
    /\ err' = [kind |-> "exception", segment |-> 0]
    /\ pc' = "exit"
    /\ UNCHANGED <<data, audio_only, fpc, rep, out_file, video_rep, audio_rep,
                   tmp_files, current_size, start_index, mode, i, requests,
                   runs, ytvars>>

\* the audio download returned and Ctrl-C arrives while ffmpeg runs: ffmpeg
\* gets the signal too and stops wherever it is, check_call raises
\* KeyboardInterrupt and the handler of __main__ exits with 130
MuxInterrupt ==
    /\ pc = "fetch_audio"
    /\ fpc \in {"returned", "skipped"}
    /\ LET m == Muxed(files[VideoTmp], files[AudioTmp])
       IN  files' \in {files} \cup
                      {Store(files, OutputPath, Prefix(m, n)) : n \in 0..(Len(m) - 1)}
    /\ mux_calls' = Append(mux_calls, <<VideoTmp, AudioTmp, OutputPath>>)
    /\ exit_code' = 130
    /\ err' = [kind |-> "cancelled", segment |-> 0]
    /\ pc' = "exit"
    /\ UNCHANGED <<data, audio_only, fpc, rep, out_file, video_rep, audio_rep,
                   tmp_files, current_size, start_index, mode, i, requests,
                   runs, ytvars>>

\* the user runs the same command again on the disk the last run left
Rerun ==
    /\ pc = "exit"
    /\ Len(runs) < MaxRuns
    /\ runs' = Append(runs, [exit_code |-> exit_code, err |-> err, mode |-> mode,
                             start_index |-> start_index,
                             current_size |-> current_size,
                             requests |-> requests, files |-> files,
                             fpc |-> fpc])
    /\ pc' = "start"
    /\ fpc' = "idle"
    /\ rep' = NoRep
    /\ out_file' = ""
    /\ video_rep' = NoRep
    /\ audio_rep' = NoRep
    /\ tmp_files' = <<>>
    /\ current_size' = NoSize
    /\ start_index' = 0
    /\ mode' = "wb"
    /\ i' = 0
    /\ requests' = <<>>
    /\ exit_code' = NotExited
    /\ err' = NoErr
    /\ mux_calls' = <<>>
    /\ UNCHANGED <<data, audio_only, files, ytvars>>

Next ==
    \/ StartAudioOnly
    \/ Resume
    \/ SegmentOk
    \/ SegmentFail
    \/ Interrupt
    \/ AudioOnlyDone
    \/ Rerun

Spec == Init /\ [][Next]_vars

(* ---------------- the whole of main, on small renditions --------------- *)
V1 == [id |-> 2, height |-> 1, width |-> 1, bitrate |-> 1,
       init_segment |-> 1, segments |-> Segments(<<1>>)]
V2 == [id |-> 3, height |-> 2, width |-> 1, bitrate |-> 1,
       init_segment |-> 1, segments |-> Segments(<<1, 1>>)]
A1 == [id |-> 1, bitrate |-> 1, init_segment |-> 1, segments |-> Segments(<<1>>)]
A2 == [id |-> 4, bitrate |-> 2, init_segment |-> 0, segments |-> Segments(<<2>>)]

\* manifests with each list missing, empty or populated
MainManifests ==
    LET Vs == {<<>>, <<V1>>, <<V1, V2>>}
        As == {<<>>, <<A1>>, <<A1, A2>>}
    IN  {<<>>}
        \cup {[video |-> v] : v \in Vs}
        \cup {[audio |-> a] : a \in As}
        \cup {[video |-> v, audio |-> a] : v \in Vs, a \in As}

\* an empty disk, or one holding a file at each path of the program
MainDisks ==
    {<<>>, [p \in {OutputPath, VideoTmp, AudioTmp} |-> Scrap(1)]}

InitMain ==
    /\ data \in MainManifests
    /\ audio_only \in BOOLEAN
    /\ files \in MainDisks
    /\ runs = <<>>
    /\ Fresh
    /\ YtIdle

NextMain ==
    \/ Reject
    \/ SelectFail
    \/ StartAudioOnly
    \/ StartCombined
    \/ Resume
    \/ SegmentOk
    \/ SegmentFail
    \/ Interrupt
    \/ AudioOnlyDone
    \/ VideoDone
    \/ MuxOk
    \/ MuxFail
    \/ MuxInterrupt
    \/ Rerun

SpecMain == InitMain /\ [][NextMain]_vars

(* ------------------- selection over rendition lists -------------------- *)
\* a field that is absent or holds one of the values
Optional(field, values) ==
    {<<>>} \cup {[f \in {field} |-> v] : v \in values}

\* the union of two dicts with disjoint keys
Merge(a, b) ==
    [f \in DOMAIN a \cup DOMAIN b |-> IF f \in DOMAIN a THEN a[f] ELSE b[f]]

\* the selection fields of a video rendition
VideoFields ==
    {Merge(Merge(h, w), Merge(b, v)) :
        h \in Optional("height", 1..MaxVal), w \in Optional("width", {1}),
        b \in Optional("bitrate", 1..MaxVal), v \in Optional("avg_bitrate", {1})}

\* the selection fields of an audio rendition
AudioFields ==
    {Merge(b, v) : b \in Optional("bitrate", 1..MaxVal),
                   v \in Optional("avg_bitrate", 1..MaxVal)}

\* rendition lists over the fields; the id is the position in the list
Streams(fields) ==
    {[k \in 1..Len(fs) |->
        Merge(fs[k], [id |-> k, init_segment |-> 0, segments |-> <<>>])] :
     fs \in SeqsOf(fields, 1, MaxStreams)}

InitBest ==
    /\ \/ /\ data \in {[video |-> v, audio |-> <<A1>>] : v \in Streams(VideoFields)}
          /\ audio_only = FALSE
       \/ /\ data \in {[video |-> <<V1>>, audio |-> a] : a \in Streams(AudioFields)}
          /\ audio_only \in BOOLEAN
    /\ files = <<>>
    /\ runs = <<>>
    /\ Fresh
    /\ YtIdle

NextBest ==
    \/ StartAudioOnly
    \/ StartCombined

SpecBest == InitBest /\ [][NextBest]_vars

(* ===================== properties of the download ===================== *)
\* sum of the declared sizes of the first n segments
RECURSIVE SumTo(_, _)
SumTo(segments, n) ==
    IF n = 0 THEN 0 ELSE SumTo(segments, n - 1) + segments[n].size

\* declared media bytes of a rendition
TotalMedia(r) == SumTo(r.segments, Len(r.segments))

\* bodies of the first n segments, each once, in list order
RECURSIVE Bodies(_, _)
Bodies(r, n) ==
    IF n = 0 THEN <<>> ELSE Bodies(r, n - 1) \o Content(r, r.segments[n])

\* the file one uninterrupted download from nothing produces
FullFile(r) == InitData(r) \o Bodies(r, Len(r.segments))

IsPrefix(s, t) == Len(s) <= Len(t) /\ s = Prefix(t, Len(s))

\* the file of the running (or last) download
OutFile == files[out_file]

\* the resume logic of this run has run
Located == fpc \notin {"idle", "call"}

\* the run before this one
LastRun == runs[Len(runs)]

\* C1: resume correctness. When the first run on the path started fresh, every
\* earlier run was ended by a failed segment request (so it left the init block
\* and the segments [0..k) it had written in full), and this run downloaded to
\* the end, the file is byte for byte the file of one uninterrupted download.
C1_ResumeCorrect ==
    (/\ runs # <<>>
     /\ runs[1].mode = "wb"
     /\ \A k \in 1..Len(runs) : runs[k].err.kind = "segment"
     /\ exit_code = 0)
    => OutFile = FullFile(rep)

\* a run that failed at segment index 1 of sizes <<2, 0, 1>> and a re-run that
\* resumed in append mode behind the zero-size segment and finished
C1_Witness ==
    /\ runs # <<>>
    /\ runs[1].mode = "wb"
    /\ runs[1].err = [kind |-> "segment", segment |-> 2]
    /\ exit_code = 0
    /\ mode = "ab"
    /\ start_index = 2
    /\ rep.segments = Segments(<<2, 0, 1>>)
    /\ OutFile = FullFile(rep)

\* C2 as stated: after a run that completed, a second run on the same
\* rendition and path issues no segment request and leaves the file as it was.
C2_Idempotent_AsStated ==
    (runs # <<>> /\ LastRun.exit_code = 0)
    => /\ requests = <<>>
       /\ files = LastRun.files

\* C2 amended: the same, for renditions whose declared segment sizes sum to
\* more than 0.
C2_Idempotent ==
    (runs # <<>> /\ LastRun.exit_code = 0 /\ Located /\ TotalMedia(rep) > 0)
    => /\ requests = <<>>
       /\ files = LastRun.files
       /\ fpc = "skipped"

\* a first run that fetched every segment, and a second run that has ended
C2_Witness ==
    /\ runs # <<>>
    /\ LastRun.exit_code = 0
    /\ Len(LastRun.requests) = Len(rep.segments)
    /\ LastRun.mode = "wb"
    /\ TotalMedia(rep) > 0
    /\ exit_code = 0
    /\ requests = <<>>

\* indices whose running sum of sizes exceeds the media bytes on disk
Behind(segments, downloaded) ==
    {k \in 0..(Len(segments) - 1) : SumTo(segments, k + 1) > downloaded}

\* C3: resume index. For a file larger than the init block the resume index is
\* the smallest index whose running sum is greater than file size - init size,
\* and the download is skipped as complete exactly when there is no such index;
\* sizes [1000, 1000, 1000], init 50, file 1550 give index 1.
C3_ResumeIndex ==
    /\ (Located /\ current_size > rep.init_segment)
       => LET B == Behind(rep.segments, current_size - rep.init_segment)
          IN  /\ (fpc = "skipped") <=> (B = {})
              /\ B # {} => /\ start_index \in B
                           /\ \A k \in B : start_index <= k
    /\ LocateResume(TRUE, 1550, 50, Segments(<<1000, 1000, 1000>>))
         = [mode |-> "ab", start_index |-> 1, skip |-> FALSE]

\* the scenario scaled to init 1, sizes <<2, 2, 2>>, file of 4 bytes
C3_Witness ==
    /\ fpc = "loop"
    /\ rep.init_segment = 1
    /\ rep.segments = Segments(<<2, 2, 2>>)
    /\ current_size = 4
    /\ start_index = 1

\* C4 as stated: when a download resumes at index i on a file that earlier runs
\* of the program wrote, the file is init size + sizes before i long right
\* before the first segment is appended.
C4_TruncatedOnResume ==
    (/\ runs # <<>>
     /\ runs[1].current_size = NoSize
     /\ fpc = "loop"
     /\ mode = "ab"
     /\ i = start_index)
    => Len(OutFile) = rep.init_segment + SumTo(rep.segments, start_index)

\* C5 as stated: a file of init size + all segment sizes is taken as complete,
\* whatever the segment sizes.
C5_Complete_AsStated ==
    (Located /\ current_size = rep.init_segment + TotalMedia(rep))
    => fpc = "skipped"

\* C5 amended: the same, for segment lists whose sizes sum to more than 0.
C5_Complete ==
    (/\ Located
     /\ current_size = rep.init_segment + TotalMedia(rep)
     /\ TotalMedia(rep) > 0)
    => /\ fpc = "skipped"
       /\ requests = <<>>

\* a complete file whose last segment is empty, skipped
C5_Witness ==
    /\ fpc = "skipped"
    /\ current_size = rep.init_segment + TotalMedia(rep)
    /\ Len(rep.segments) >= 2
    /\ rep.segments[Len(rep.segments)].size = 0

\* C6: start fresh. When out_file does not exist or is no larger than the init
\* block, the file is opened truncating, the init block is written first and
\* the segments follow from index 0: nothing of the old file is left.
C6_StartFresh ==
    (Located /\ current_size <= rep.init_segment)
    => /\ mode = "wb"
       /\ start_index = 0
       /\ IsPrefix(InitData(rep), OutFile)
       /\ IsPrefix(OutFile, FullFile(rep))
       /\ Len(OutFile) >= rep.init_segment + SumTo(rep.segments, i)
       /\ requests # <<>> => requests[1] = <<rep.id, rep.segments[1].url>>

\* a foreign file exactly as long as the init block, overwritten
C6_Witness ==
    /\ runs = <<>>
    /\ fpc = "loop"
    /\ i = 0
    /\ current_size = rep.init_segment
    /\ current_size > 0
    /\ OutFile = InitData(rep)

(* ===================== properties of the selection ==================== *)
\* a field of a rendition, 0 when it is missing
Field(r, f) == IF f \in DOMAIN r THEN r[f] ELSE 0

\* the video score (height, width, bitrate) and the audio score (bitrate)
VideoScore(r) == <<Field(r, "height"), Field(r, "width"), Field(r, "bitrate")>>
AudioScore(r) == <<Field(r, "bitrate"), 0, 0>>

\* lexicographic a >= b on triples
ScoreGE(a, b) ==
    \/ a[1] > b[1]
    \/ a[1] = b[1] /\ a[2] > b[2]
    \/ a[1] = b[1] /\ a[2] = b[2] /\ a[3] >= b[3]

\* r stands at a position of streams where the score is maximal and no
\* earlier position has that score
IsFirstMax(r, streams, Score(_)) ==
    \E p \in 1..Len(streams) :
        /\ streams[p] = r
        /\ \A q \in 1..Len(streams) : ScoreGE(Score(r), Score(streams[q]))
        /\ \A q \in 1..(p - 1) : Score(streams[q]) # Score(r)

\* C7: _best returns an element of the list whose key is at least every
\* element's key, the first such element in input order; the video key is
\* (height, width, bitrate) with missing fields as 0, the audio key is bitrate
\* (height 1080 / bitrate 5000 beats height 720 / bitrate 8000).
C7_SelectBest ==
    /\ pc # "start"
       => /\ IsFirstMax(audio_rep, data.audio, AudioScore)
          /\ ~audio_only => IsFirstMax(video_rep, data.video, VideoScore)
    /\ Best(<<[height |-> 1080, bitrate |-> 5000],
              [height |-> 720, bitrate |-> 8000]>>, TRUE).height = 1080

\* two video renditions of equal score that differ in a field outside the
\* key: the first one is taken
C7_Witness ==
    /\ pc = "fetch_video"
    /\ Len(data.video) = 2
    /\ VideoScore(data.video[1]) = VideoScore(data.video[2])
    /\ "avg_bitrate" \in DOMAIN data.video[2]
    /\ "avg_bitrate" \notin DOMAIN data.video[1]
    /\ video_rep = data.video[1]

\* the bitrate of the spec's data model: avg_bitrate when bitrate is missing
EffectiveBitrate(r) ==
    IF "bitrate" \in DOMAIN r THEN r.bitrate ELSE Field(r, "avg_bitrate")

\* C8 as stated: the selected audio rendition has the highest bitrate, where a
\* rendition without a bitrate field counts with its avg_bitrate.
C8_BitrateFallback ==
    pc # "start"
    => \A q \in 1..Len(data.audio) :
          EffectiveBitrate(audio_rep) >= EffectiveBitrate(data.audio[q])

(* ======================= properties of main =========================== *)
\* the list under key k is present and populated
Populated(d, k) == k \in DOMAIN d /\ d[k] # <<>>

\* what the requested mode needs of the manifest
Required(d, ao) ==
    IF ao THEN Populated(d, "audio")
    ELSE Populated(d, "video") /\ Populated(d, "audio")

\* the run failed in the selection step, before any download was called
FailedSelecting == pc = "exit" /\ fpc = "idle" /\ exit_code = 1

\* C9 as stated: a run fails in the selection step exactly when the manifest
\* lacks what the requested mode needs: an audio rendition for an audio-only
\* run, a video and an audio rendition for a combined run.
C9_ModeRequirements ==
    pc # "start"
    => (FailedSelecting <=> ~Required(data, audio_only))

\* C10: when a list the requested mode needs is missing or empty, the run ends
\* in an error before any segment is requested and without creating, changing
\* or removing any file.
C10_RejectNoEffect ==
    /\ [](~Required(data, audio_only)
           => /\ requests = <<>>
              /\ pc \in {"start", "exit"}
              /\ pc = "exit" => exit_code = 1 /\ err.kind # "none")
    /\ [][~Required(data, audio_only) => files' = files]_vars

\* a combined run on a manifest with videos and an empty audio list has failed
\* on a disk that holds files
C10_Witness ==
    /\ pc = "exit"
    /\ ~audio_only
    /\ Populated(data, "video")
    /\ "audio" \in DOMAIN data
    /\ data.audio = <<>>
    /\ exit_code = 1
    /\ DOMAIN files = {OutputPath, VideoTmp, AudioTmp}

(* ===================== properties of a combined run ==================== *)
\* the paths of the two temporary track files
TmpPaths == {VideoTmp, AudioTmp}

\* the download in progress has run to its end
FetchReported == fpc \in {"returned", "skipped"}

\* C11: a combined run fetches the video track, then the audio track, then
\* calls the mux: the audio fetch starts only when the video fetch has reported
\* completion, the mux is called only when the audio fetch has too, and a
\* segment failure in either track ends the run with no mux call and with the
\* files on disk, the partial temporary files among them, left as they are.
C11_MuxAfterBothFetches ==
    /\ [](err.kind = "segment" => pc = "exit" /\ mux_calls = <<>>)
    /\ [][/\ (pc' = "fetch_video" /\ pc # "fetch_video") => pc = "start"
          /\ (pc' = "fetch_audio" /\ pc # "fetch_audio") =>
                 pc = "fetch_video" /\ out_file = VideoTmp /\ FetchReported
          /\ mux_calls' # mux_calls /\ mux_calls' # <<>> =>
                 pc = "fetch_audio" /\ out_file = AudioTmp /\ FetchReported
          /\ err'.kind = "segment" => files' = files
         ]_vars

\* the mux was called after both tracks were fetched segment by segment
C11_Witness ==
    /\ mux_calls # <<>>
    /\ \E k \in 1..Len(requests) : requests[k][1] = video_rep.id
    /\ \E k \in 1..Len(requests) : requests[k][1] = audio_rep.id

\* C12: a temporary track file leaves the disk only in the step in which the
\* mux call returns with success (exit status 0); a run that ends any other
\* way (segment failure, mux failure, Ctrl-C) removes no temporary file.
C12_TmpRemovedOnlyAfterMux ==
    [][(\E p \in TmpPaths : p \in DOMAIN files /\ p \notin DOMAIN files') =>
           /\ mux_calls' # mux_calls
           /\ pc' = "exit"
           /\ exit_code' = 0
      ]_vars

\* a run whose mux failed has ended with both temporary files on disk
C12_Witness ==
    /\ pc = "exit"
    /\ exit_code = 1
    /\ mux_calls # <<>>
    /\ requests # <<>>
    /\ TmpPaths \subseteq DOMAIN files

\* the step writes the final output path
OutputWritten ==
    /\ OutputPath \in DOMAIN files'
    /\ OutputPath \in DOMAIN files => files'[OutputPath] # files[OutputPath]

\* C13: no partial final output: a step that creates or writes the final
\* output path is, in a combined run, the return of a successful mux call and,
\* in an audio-only run, leaves the complete asset (the init block and every
\* segment) there; so no run that fails or is interrupted leaves partially
\* downloaded content at the output path.
C13_NoPartialOutput ==
    [][OutputWritten =>
           IF audio_only
           THEN files'[OutputPath] = FullFile(audio_rep')
           ELSE mux_calls' # mux_calls /\ exit_code' = 0
      ]_vars

(* ================== properties of the download loop =================== *)
\* the file as the open of this run (and its write of the init block) left it
FileAtLoopEntry ==
    IF mode = "wb" THEN InitData(rep)
    ELSE IF runs = <<>> THEN Scrap(current_size)
    ELSE LastRun.files[out_file]

\* bodies of the segments with index from..(to - 1), each once, in list order
RECURSIVE BodiesFrom(_, _, _)
BodiesFrom(r, from, to) ==
    IF to <= from THEN <<>>
    ELSE BodiesFrom(r, from, to - 1) \o Content(r, r.segments[to])

\* the GETs for the segments with index from..(to - 1), in index order
RequestsFrom(r, from, to) ==
    [k \in 1..(to - from) |-> <<r.id, r.segments[from + k].url>>]

\* C14: when the request for segment i fails the run is over with exit status
\* 1, the requests made are those for the segments from the resume index to i
\* and none after i, the file holds what it held when the loop began followed
\* by the whole of every segment before i and no byte of segment i, and the
\* error printed names segment i (as number i + 1).
C14_FailureStopsAtSegment ==
    err.kind = "segment"
    => /\ pc = "exit"
       /\ exit_code = 1
       /\ err.segment = i + 1
       /\ requests = RequestsFrom(rep, start_index, i + 1)
       /\ OutFile = FileAtLoopEntry \o BodiesFrom(rep, start_index, i)

\* the request for the second of three non-empty segments failed
C14_Witness ==
    /\ err = [kind |-> "segment", segment |-> 2]
    /\ Len(rep.segments) = 3
    /\ \A k \in 1..3 : rep.segments[k].size > 0
    /\ Len(requests) = 2

\* C15: a Ctrl-C during the download takes effect at a segment boundary: the
\* run that it ended (exit status 130) left a file that ends where a segment
\* ends, either just before the segment that was in flight or just after it.
C15_InterruptAtBoundary ==
    exit_code = 130
    => LET n == start_index + Len(requests)
       IN  \/ OutFile = FileAtLoopEntry \o BodiesFrom(rep, start_index, n - 1)
           \/ OutFile = FileAtLoopEntry \o BodiesFrom(rep, start_index, n)

\* C16: when the file found is larger than the init block and no running sum
\* of segment sizes exceeds file size - init size (a file longer than the
\* rendition's full length included), the fetch returns at once and the run
\* ends with success: no request is made and the file holds, byte for byte,
\* what it held before the run.
C16_CompleteIsNoOp ==
    (/\ Located
     /\ current_size > rep.init_segment
     /\ Behind(rep.segments, current_size - rep.init_segment) = {})
    => /\ fpc = "skipped"
       /\ requests = <<>>
       /\ Len(OutFile) = current_size
       /\ OutFile = (IF runs = <<>> THEN Scrap(current_size)
                     ELSE LastRun.files[out_file])
       /\ pc = "exit" => exit_code = 0

\* a second run found a file longer than the full length of the rendition
\* (the first run had appended to a foreign file) and has ended with success
C16_Witness ==
    /\ runs # <<>>
    /\ fpc = "skipped"
    /\ TotalMedia(rep) > 0
    /\ current_size > rep.init_segment + TotalMedia(rep)
    /\ exit_code = 0

\* C17: the requests of one fetch are those for the segments resume index,
\* resume index + 1, ... in that order, each index once (no retry), and when
\* the request for a segment has been made the file already holds the whole of
\* every segment requested before it.
C17_InOrderOnce ==
    Located
    => LET n == Len(requests)
       IN  /\ start_index + n <= Len(rep.segments)
           /\ requests = RequestsFrom(rep, start_index, start_index + n)
           /\ \A j, k \in 1..n : j # k => requests[j] # requests[k]
           /\ IsPrefix(FileAtLoopEntry
                       \o BodiesFrom(rep, start_index, start_index + n - 1),
                       OutFile)

\* a run that resumed at index 1 of three segments has fetched the other two
C17_Witness ==
    /\ mode = "ab"
    /\ start_index = 1
    /\ Len(rep.segments) = 3
    /\ Len(requests) = 2
    /\ fpc = "returned"

\* C18: zero-size segments. Every resume index i the walk returns has
\* sum(sizes before i) <= file size - init size < sum(sizes up to and with i),
\* so the segment resumed at is never an empty one; an empty last segment is the
\* first one fetched only when a download starts from nothing and it is the
\* only segment there is.
C18_ZeroSizeSegments ==
    (Located /\ fpc # "skipped")
    => LET segs == rep.segments
           d == current_size - rep.init_segment
       IN  /\ mode = "ab" =>
                 /\ SumTo(segs, start_index) <= d
                 /\ d < SumTo(segs, start_index + 1)
                 /\ segs[start_index + 1].size > 0
           /\ (/\ segs # <<>>
               /\ start_index = Len(segs) - 1
               /\ segs[Len(segs)].size = 0)
              => mode = "wb" /\ Len(segs) = 1

\* the file ends right at an empty segment in the middle of the list: the
\* walk passes the empty segment and resumes at the one behind it
C18_Witness ==
    /\ fpc = "loop"
    /\ mode = "ab"
    /\ rep.segments = Segments(<<1, 0, 2>>)
    /\ current_size = rep.init_segment + 1
    /\ start_index = 2
    /\ requests = <<>>

\* the resume index of a run: start_index, or the number of segments when the
\* file was found complete
ResumeIndex(skipped, index) == IF skipped THEN Len(rep.segments) ELSE index

\* C19: progress is never lost across re-invocations. When every earlier run
\* on the path was ended by a segment failure or by completion, the resume
\* index of this run is at least that of the run before it, and the file is
\* at no time of this run shorter than the run before left it.
C19_ProgressKept ==
    (/\ runs # <<>>
     /\ \A k \in 1..Len(runs) : runs[k].exit_code \in {0, 1}
     /\ Located)
    => /\ ResumeIndex(fpc = "skipped", start_index)
            >= ResumeIndex(LastRun.fpc = "skipped", LastRun.start_index)
       /\ Len(OutFile) >= Len(LastRun.files[out_file])

\* a run from nothing failed at segment index 1, and the run after it has
\* resumed there and appended to the file
C19_Witness ==
    /\ runs # <<>>
    /\ LastRun.mode = "wb"
    /\ LastRun.err = [kind |-> "segment", segment |-> 2]
    /\ start_index = 1
    /\ mode = "ab"
    /\ Len(OutFile) > Len(LastRun.files[out_file])

(* ===================== youtube-downloader/yt-dl.py ===================== *)
\* Names and urls are sequences of pieces of text, so that "contains" and
\* "ends with" are computed on them; a video id is one piece.

\* the video ids (11 characters of the id alphabet each)
Ids == {"a", "b"}

\* what extract_video_id returns when no pattern matches
None == "None"

\* FILENAME_TEMPLATE filled in by yt-dlp
FileName(id, ext) == <<"title ", "[", id, "]", ".", ext>>

\* pat occurs in name (Python's "pat in name")
Contains(name, pat) ==
    \E k \in 1..(Len(name) - Len(pat) + 1) :
        SubSeq(name, k, k + Len(pat) - 1) = pat

\* name.endswith(suffix)
EndsWith(name, suffix) ==
    /\ Len(name) >= Len(suffix)
    /\ SubSeq(name, Len(name) - Len(suffix) + 1, Len(name)) = suffix

\* the patterns of extract_video_id, in list order: the text before the id
Patterns == <<{"?v=", "&v="}, {"youtu.be/"}, {"embed/"}, {"youtube.com/v/"}>>

\* the places where pattern p matches in u
Matches(u, p) ==
    {k \in 1..(Len(u) - 1) : u[k] \in Patterns[p] /\ u[k + 1] \in Ids}

\* the least element of a non-empty set of numbers
Least(S) == CHOOSE x \in S : \A y \in S : x <= y

\* the id behind the first match of the first pattern that matches
ExtractVideoId(u) ==
    LET P == {p \in DOMAIN Patterns : Matches(u, p) # {}}
    IN  IF P = {} THEN None ELSE u[Least(Matches(u, Least(P))) + 1]

\* mutant of IsFullyDownloaded: only .part marks a file as unfinished
IsFullyDownloadedPartOnly(vid, directory) ==
    \E name \in directory :
        /\ Contains(name, <<"[", vid, "]", ".">>)
        /\ ~EndsWith(name, <<".", "part">>)

\* some file of the directory has "[vid]." in its name and is no partial file
IsFullyDownloaded(vid, directory) ==
    \E name \in directory :
        /\ Contains(name, <<"[", vid, "]", ".">>)
        /\ ~(EndsWith(name, <<".", "part">>) \/ EndsWith(name, <<".", "aria2">>))

\* the -f arguments of the two commands
BuildCmdSets(a) ==
    IF a
    THEN [primary |-> "bestaudio", fallback |-> "bestaudio"]
    ELSE [primary |-> "bestvideo[height<=limit]+bestaudio/best[height<=limit]",
          fallback |-> "bestvideo+bestaudio/best"]

\* the urls of a list file: the four forms the patterns know, with one or two
\* parameters, a form they do not know, and an id that is too short
Urls ==
    {<<"https://www.youtube.com/watch", "?v=", v>> : v \in Ids}
    \cup {<<"https://www.youtube.com/watch?list=x", "&v=", "a">>,
          <<"https://", "youtu.be/", "b">>,
          <<"https://www.youtube.com/", "embed/", "a">>,
          <<"https://www.", "youtube.com/v/", "b">>,
          <<"https://", "youtu.be/", "a", "?v=", "b">>,
          <<"https://www.youtube.com/shorts/", "a">>,
          <<"https://www.youtube.com/watch", "?v=", "short">>}

\* the video yt-dlp finds behind a url (it knows every form: the first id in
\* the url), None if there is none
VideoOf(u) ==
    LET K == {k \in 1..Len(u) : u[k] \in Ids}
    IN  IF K = {} THEN None ELSE u[Least(K)]

\* the file names a directory can hold: finished files, files of a download
\* under way, a stream not merged yet, a name without extension, another file
Names ==
    UNION {{FileName(v, "mp4"), FileName(v, "mp3"),
            FileName(v, "mp4") \o <<".", "part">>,
            FileName(v, "mp4") \o <<".", "part">> \o <<".", "aria2">>,
            <<"title ", "[", v, "]", ".", "f137", ".", "mp4">>,
            <<"title ", "[", v, "]">>} : v \in Ids}
    \cup {<<"notes", ".", "txt">>}

\* the directories main can find
Dirs == {d \in SUBSET Names : Cardinality(d) <= MaxFiles}

\* main has read the list file and stands before the loop over the urls
InitYt ==
    /\ urls \in SeqsOf(Urls, 1, MaxUrls)
    /\ url = <<>>
    /\ outdir \in Dirs
    /\ audio \in BOOLEAN
    /\ out \in {".", "videos"}
    /\ ypc = "main"
    /\ ran = <<>>
    /\ data = <<>>
    /\ audio_only = FALSE
    /\ files = <<>>
    /\ runs = <<>>
    /\ Fresh

\* the state of vimeo_dl.py
vimeovars == <<data, audio_only, files, pc, fpc, rep, out_file, video_rep,
               audio_rep, tmp_files, current_size, start_index, mode, i,
               requests, exit_code, err, runs, mux_calls>>

\* the next round of the loop of main: download_url up to its return at the
\* skip or to the first subprocess.run
DownloadUrl ==
    /\ ypc \in {"main", "skipped", "done", "failed"}
    /\ urls # <<>>
    /\ url' = Head(urls)
    /\ urls' = Tail(urls)
    /\ ran' = <<>>
    /\ LET vid == ExtractVideoId(Head(urls))
       IN  ypc' = IF vid # None /\ IsFullyDownloaded(vid, outdir)
                  THEN "skipped" ELSE "primary"
    /\ UNCHANGED <<outdir, audio, out, vimeovars>>

\* the directory after a run of yt-dlp on url: it writes into the working
\* directory, which is outdir only when args.out is "."
AfterRun(ok) ==
    LET v == VideoOf(url)
        ext == IF audio THEN "mp3" ELSE "mp4"
        partial == {FileName(v, "mp4") \o <<".", "part">>,
                    FileName(v, "mp4") \o <<".", "part">> \o <<".", "aria2">>}
    IN  IF out # "." \/ v = None THEN {outdir}
        ELSE IF ok THEN {(outdir \ partial) \cup {FileName(v, ext)}}
        ELSE {outdir, outdir \cup {FileName(v, "mp4") \o <<".", "part">>}}

\* a call of subprocess.run and what became of it
Ran(which, result) ==
    [which |-> which, format |-> BuildCmdSets(audio)[which], result |-> result]

\* the primary command exits with status 0
PrimaryOk ==
    /\ ypc = "primary"
    /\ ran' = Append(ran, Ran("primary", "ok"))
    /\ outdir' \in AfterRun(TRUE)
    /\ ypc' = "done"
    /\ UNCHANGED <<urls, url, audio, out, vimeovars>>

\* the primary command exits with another status: CalledProcessError
PrimaryFails ==
    /\ ypc = "primary"
    /\ ran' = Append(ran, Ran("primary", "nonzero"))
    /\ outdir' \in AfterRun(FALSE)
    /\ ypc' = "fallback"
    /\ UNCHANGED <<urls, url, audio, out, vimeovars>>

\* the fallback command exits with status 0
FallbackOk ==
    /\ ypc = "fallback"
    /\ ran' = Append(ran, Ran("fallback", "ok"))
    /\ outdir' \in AfterRun(TRUE)
    /\ ypc' = "done"
    /\ UNCHANGED <<urls, url, audio, out, vimeovars>>

\* the fallback command exits with another status: CalledProcessError leaves
\* download_url and main reports the url as failed
FallbackFails ==
    /\ ypc = "fallback"
    /\ ran' = Append(ran, Ran("fallback", "nonzero"))
    /\ outdir' \in AfterRun(FALSE)
    /\ ypc' = "failed"
    /\ UNCHANGED <<urls, url, audio, out, vimeovars>>

\* yt-dlp cannot be started: subprocess.run raises OSError, which neither
\* download_url nor main catches, and the program ends
NotStarted ==
    /\ ypc \in {"primary", "fallback"}
    /\ ran' = Append(ran, Ran(ypc, "oserror"))
    /\ ypc' = "crashed"
    /\ UNCHANGED <<urls, url, outdir, audio, out, vimeovars>>

NextYt ==
    \/ DownloadUrl
    \/ PrimaryOk
    \/ PrimaryFails
    \/ FallbackOk
    \/ FallbackFails
    \/ NotStarted

SpecYt == InitYt /\ [][NextYt]_vars

(* ================== properties of the batch downloader ================= *)
\* the id extract_video_id finds in the url in hand
Vid == ExtractVideoId(url)

\* the files of the directory that count as finished files of video id: the
\* name has "[id]." in it and ends neither in .part nor in .aria2
FinishedFiles(directory, id) ==
    {name \in directory :
        /\ \E k \in 1..Len(name) :
              /\ k + 3 <= Len(name)
              /\ <<name[k], name[k + 1], name[k + 2], name[k + 3]>>
                     = <<"[", id, "]", ".">>
        /\ name[Len(name)] \notin {"part", "aria2"}}

\* C20: per url, download_url runs no command when the directory holds a
\* finished file of the url's video id, and files ending in .part or .aria2
\* alone do not make it skip; otherwise it runs the primary command once, and
\* the fallback command once exactly when the primary command ran and exited
\* with a failure status; it never runs more than two commands for a url.
C20_SkipOrTwoRuns ==
    LET primary(result) == [which |-> "primary", result |-> result,
                            format |-> BuildCmdSets(audio).primary]
        fallback(result) == [which |-> "fallback", result |-> result,
                             format |-> BuildCmdSets(audio).fallback]
    IN  /\ Len(ran) <= 2
        /\ ypc = "skipped" =>
               ran = <<>> /\ Vid # None /\ FinishedFiles(outdir, Vid) # {}
        /\ ypc = "primary" =>
               ran = <<>> /\ (Vid = None \/ FinishedFiles(outdir, Vid) = {})
        /\ ypc = "fallback" => ran = <<primary("nonzero")>>
        /\ ypc = "done" =>
               ran \in {<<primary("ok")>>,
                        <<primary("nonzero"), fallback("ok")>>}
        /\ ypc = "failed" => ran = <<primary("nonzero"), fallback("nonzero")>>
        /\ ypc = "crashed" =>
               ran \in {<<primary("oserror")>>,
                        <<primary("nonzero"), fallback("oserror")>>}

\* the directory holds only a partial file of the url's video (yt-dlp works in
\* another directory), the url was not skipped, the primary command failed
\* and the fallback command is next
C20_Witness ==
    /\ ypc = "fallback"
    /\ out # "."
    /\ Vid # None
    /\ \E name \in outdir : Contains(name, <<"[", Vid, "]", ".">>)
    /\ FinishedFiles(outdir, Vid) = {}
    /\ Len(ran) = 1

====
